---- MODULE Spec2Model ----
(***************************************************************************)
(* A model of the two programs of the repository:                          *)
(*   - src/Arav/music_sounds.py: the monophonic MIDI instrument            *)
(*     (class MusicInstrument and the menu loop that drives it);           *)
(*   - src/main.py: the theremin (the detection loop of main() that        *)
(*     writes the globals volume and active_frequencies, and the           *)
(*     sounddevice callback audio_callback that reads them).               *)
(* Time is counted in ticks of 1/TicksPerSec second. Volumes are counted   *)
(* in thousandths, frequencies in tenths of a hertz.                       *)
(***************************************************************************)
EXTENDS Integers, Sequences, FiniteSets, TLC

VARIABLES
    \* ---- music_sounds.py: MusicInstrument and its caller
    current_instrument, \* self.current_instrument
    current_note,       \* self.current_note (None when idle)
    start_time,         \* self.start_time (None when idle)
    port_open,          \* self.port is open
    sent,               \* the messages handed to self.port.send, in order
    now,                \* the value time.time() returns, in ticks
    ret,                \* what the last select_instrument call returned
    pc,                 \* where the caller of the instrument is
    scale_start,        \* play_scale: its argument start_note
    scale_type,         \* play_scale: its argument scale_type
    scale,              \* play_scale: the interval list chosen at line 108
    scale_i,            \* play_scale: the index of the current interval
    scale_mark,         \* play_scale: Len(sent) when it was entered
    \* ---- main.py: the globals, the detection loop and the audio callback
    volume,             \* global volume
    active_frequencies, \* global active_frequencies
    t0,                 \* audio_callback.t0
    main_pc,            \* where the detection loop of main() is
    base_freq,          \* main(): local base_freq of the current frame
    extended,           \* main(): local extended of the current frame
    stream_active,      \* the OutputStream is started and not yet stopped
    cb_pc,              \* where the running audio_callback invocation is
    cb_frames,          \* audio_callback: its argument frames
    cb_t,               \* audio_callback: the t0 read at line 27
    cb_list,            \* audio_callback: the list the for loop iterates
    cb_paired,          \* list_volume when the for loop took its list
    cb_i,               \* audio_callback: the for loop's position
    cb_mix,             \* audio_callback: the terms added to mix so far
    out,                \* the blocks written to outdata, in order
    list_volume,        \* the volume in force when active_frequencies was assigned
    frames_read         \* the number of frames cap.read() has returned

midi_vars == <<current_instrument, current_note, start_time, port_open, sent,
               now, ret, pc, scale_start, scale_type, scale, scale_i,
               scale_mark>>

audio_vars == <<volume, active_frequencies, t0, main_pc, base_freq, extended,
                stream_active, cb_pc, cb_frames, cb_t, cb_list, cb_paired, cb_i, cb_mix,
                out, list_volume, frames_read>>

vars == <<midi_vars, audio_vars>>

(***************************************************************************)
(* Bounds of the model.                                                    *)
(***************************************************************************)
\* Between two calls the clock advances only while it is below MaxTime ticks.
MaxTime == 2
\* A call that sends is made only while fewer than MaxSent messages were sent.
MaxSent == 3
\* play_scale is entered only while at most MaxScaleEntry messages were sent.
MaxScaleEntry == 1

(***************************************************************************)
(* music_sounds.py                                                         *)
(***************************************************************************)
None == -1

TicksPerSec == 8

INSTRUMENTS == {1, 5, 25, 41, 57, 74}

NOTE_RANGES ==
    (1 :> 21..108) @@ (5 :> 28..102) @@ (25 :> 40..83) @@
    (41 :> 55..99) @@ (57 :> 55..81) @@ (74 :> 60..95)

\* The pitches of the keys visual_play_mode draws and starts.
VISUAL_NOTES == 60..72

\* The values the callers pass, chosen to meet every branch.
Pitches == {60, 62, 100, 109}
InstrumentChoices == {1, 74, 2}
ScaleStarts == {60, 90, 200}
ScaleTypes == {<<"m", "a", "j", "o", "r">>, <<"M", "a", "J", "o", "r">>,
               <<"m", "i", "n", "o", "r">>}
Delays == {1, 24}
Lags == {0, 1}

NoteOn(note, velocity) ==
    [type |-> "note_on", note |-> note, velocity |-> velocity]
NoteOff(note, velocity) ==
    [type |-> "note_off", note |-> note, velocity |-> velocity]
ProgramChange(program) ==
    [type |-> "program_change", program |-> program]

InitialVelocity == 64
VelocityBase == 64
VelocitySlope == 30
VelocityMax == 127

Min(a, b) == IF a <= b THEN a ELSE b

Max(S) == CHOOSE x \in S : \A y \in S : y <= x

\* n / d rounded to the nearest integer, a tie to the even one (Python's round).
RoundHalfEven(n, d) ==
    LET q == n \div d
        r == n % d
    IN IF 2 * r < d THEN q
       ELSE IF 2 * r > d THEN q + 1
       ELSE IF q % 2 = 0 THEN q ELSE q + 1

\* Velocity with round() in the place of int().
VelocityRounded(duration) ==
    Min(VelocityMax,
        RoundHalfEven(VelocityBase * TicksPerSec + duration * VelocitySlope,
                      TicksPerSec))

\* stop_note, line 94: min(127, int(64 + duration * 30)), duration in ticks.
\* int() truncates; the operand is never negative here, so it is the floor.
Velocity(duration) ==
    Min(VelocityMax,
        (VelocityBase * TicksPerSec + duration * VelocitySlope) \div TicksPerSec)

\* The instrument's fields and its port's stream, as one value.
Self == [current_instrument |-> current_instrument,
         current_note |-> current_note,
         start_time |-> start_time,
         sent |-> sent]

\* stop_note with the test of line 91 left out: a message is sent whether
\* a note sounds or not, with the base velocity when none does.
StopNoteNoGuard(s, t) ==
    [s EXCEPT !.sent = Append(@, NoteOff(s.current_note,
                                 IF s.start_time = None THEN VelocityBase
                                 ELSE Velocity(t - s.start_time))),
              !.current_note = None,
              !.start_time = None]

\* stop_note that forgets line 101.
StopNoteKeepsStartTime(s, t) ==
    IF s.current_note # None
    THEN [s EXCEPT !.sent = Append(@, NoteOff(s.current_note,
                                              Velocity(t - s.start_time))),
                   !.current_note = None]
    ELSE s

\* stop_note at time t.
StopNoteAt(s, t) ==
    IF s.current_note # None
    THEN [s EXCEPT !.sent = Append(@, NoteOff(s.current_note,
                                              Velocity(t - s.start_time))),
                   !.current_note = None,
                   !.start_time = None]
    ELSE s

\* No range check at all.
InRangeAlways(note, instrument) == TRUE

InRange(note, instrument) == note \in NOTE_RANGES[instrument]

\* start_note with the test of line 77 left out: the pitch that sounds is
\* stopped and started again.
StartNoteRetriggers(s, note, t, lag) ==
    IF InRange(note, s.current_instrument)
    THEN LET stopped == IF s.current_note # None
                        THEN StopNoteAt(s, t) ELSE s
             t2 == IF s.current_note # None THEN t + lag ELSE t
         IN [stopped EXCEPT !.current_note = note,
                            !.start_time = t2,
                            !.sent = Append(@, NoteOn(note, InitialVelocity))]
    ELSE s

\* start_note with line 82 run only when no note sounded: the new note
\* keeps the start time of the one it replaces.
StartNoteInheritsTime(s, note, t, lag) ==
    IF InRange(note, s.current_instrument) /\ s.current_note # note
    THEN LET stopped == IF s.current_note # None
                        THEN StopNoteAt(s, t) ELSE s
             t2 == IF s.current_note # None THEN s.start_time ELSE t
         IN [stopped EXCEPT !.current_note = note,
                            !.start_time = t2,
                            !.sent = Append(@, NoteOn(note, InitialVelocity))]
    ELSE s

\* start_note that forgets lines 78-79.
StartNoteNoStop(s, note, t, lag) ==
    IF InRange(note, s.current_instrument) /\ s.current_note # note
    THEN [s EXCEPT !.current_note = note,
                   !.start_time = t,
                   !.sent = Append(@, NoteOn(note, InitialVelocity))]
    ELSE s

\* start_note(note) at time t; lag ticks pass between the time.time() call of
\* the nested stop_note and the one of line 82.
StartNoteAt(s, note, t, lag) ==
    IF InRange(note, s.current_instrument)
    THEN IF s.current_note # note
         THEN LET stopped == IF s.current_note # None
                             THEN StopNoteAt(s, t) ELSE s
                  t2 == IF s.current_note # None THEN t + lag ELSE t
              IN [stopped EXCEPT !.current_note = note,
                                 !.start_time = t2,
                                 !.sent = Append(@, NoteOn(note, InitialVelocity))]
         ELSE s
    ELSE s

\* The clock after start_note(note) called at time t.
ClockAfterStart(s, note, t, lag) ==
    IF /\ InRange(note, s.current_instrument)
       /\ s.current_note # note
       /\ s.current_note # None
    THEN t + lag ELSE t

Store(s) ==
    /\ current_instrument' = s.current_instrument
    /\ current_note' = s.current_note
    /\ start_time' = s.start_time
    /\ sent' = s.sent

Upper == <<"A", "B", "C", "D", "E", "F", "G", "H", "I", "J", "K", "L", "M",
           "N", "O", "P", "Q", "R", "S", "T", "U", "V", "W", "X", "Y", "Z">>
LowerCase == <<"a", "b", "c", "d", "e", "f", "g", "h", "i", "j", "k", "l", "m",
               "n", "o", "p", "q", "r", "s", "t", "u", "v", "w", "x", "y", "z">>

\* str.lower
Lower(str) ==
    [k \in 1..Len(str) |->
        IF \E j \in 1..Len(Upper) : Upper[j] = str[k]
        THEN LowerCase[CHOOSE j \in 1..Len(Upper) : Upper[j] = str[k]]
        ELSE str[k]]

major_scale == <<0, 2, 4, 5, 7, 9, 11, 12>>
minor_scale == <<0, 2, 3, 5, 7, 8, 10, 12>>

\* The choice of line 108 without .lower().
ScaleOfCaseSensitive(type) ==
    IF type = <<"m", "a", "j", "o", "r">> THEN major_scale ELSE minor_scale

\* The choice of line 108 over scales that end at the seventh, the octave
\* left out of lines 105 and 106.
ScaleOfNoOctave(type) ==
    SubSeq(IF Lower(type) = <<"m", "a", "j", "o", "r">>
           THEN major_scale ELSE minor_scale, 1, 7)

\* play_scale, line 108
ScaleOf(type) ==
    IF Lower(type) = <<"m", "a", "j", "o", "r">> THEN major_scale ELSE minor_scale

\* time.sleep(0.5), in ticks
SleepTicks == TicksPerSec \div 2

InitMidi ==
    /\ current_instrument = 1
    /\ current_note = None
    /\ start_time = None
    /\ port_open = TRUE
    /\ sent = <<>>
    /\ now = 0
    /\ ret = None
    /\ pc = "ready"
    /\ scale_start = None
    /\ scale_type = <<>>
    /\ scale = <<>>
    /\ scale_i = 0
    /\ scale_mark = 0

UnchangedScale == UNCHANGED <<scale_start, scale_type, scale, scale_i, scale_mark>>

\* Time passes between two calls.
Tick(d) ==
    /\ pc = "ready"
    /\ now < MaxTime
    /\ now' = now + d
    /\ UNCHANGED <<current_instrument, current_note, start_time, port_open,
                   sent, ret, pc>>
    /\ UnchangedScale
    /\ UNCHANGED audio_vars

\* select_instrument, line 64, with the instrument number sent as the
\* program.
ProgramOfNumber(num) == num

\* select_instrument, line 64: General MIDI numbers programs from 0.
ProgramOf(num) == num - 1

\* select_instrument with a number typed in.
SelectInstrument(num) ==
    /\ pc = "ready"
    /\ Len(sent) < MaxSent
    /\ IF num \in INSTRUMENTS
       THEN /\ current_instrument' = num
            /\ sent' = Append(sent, ProgramChange(ProgramOf(num)))
            /\ ret' = 1
       ELSE /\ ret' = 0
            /\ UNCHANGED <<current_instrument, sent>>
    /\ UNCHANGED <<current_note, start_time, port_open, now, pc>>
    /\ UnchangedScale
    /\ UNCHANGED audio_vars

\* select_instrument with something typed in that int() rejects.
SelectInstrumentValueError ==
    /\ pc = "ready"
    /\ ret' = 0
    /\ UNCHANGED <<current_instrument, current_note, start_time, port_open,
                   sent, now, pc>>
    /\ UnchangedScale
    /\ UNCHANGED audio_vars

StartNote(note, lag) ==
    /\ pc = "ready"
    /\ Len(sent) < MaxSent
    /\ Store(StartNoteAt(Self, note, now, lag))
    /\ now' = ClockAfterStart(Self, note, now, lag)
    /\ UNCHANGED <<port_open, ret, pc>>
    /\ UnchangedScale
    /\ UNCHANGED audio_vars

StopNote ==
    /\ pc = "ready"
    /\ Len(sent) < MaxSent
    /\ Store(StopNoteAt(Self, now))
    /\ UNCHANGED <<port_open, now, ret, pc>>
    /\ UnchangedScale
    /\ UNCHANGED audio_vars

\* play_scale, lines 105-109: the scale is chosen.
PlayScale(start, type) ==
    /\ pc = "ready"
    /\ Len(sent) <= MaxScaleEntry
    /\ now <= MaxTime + Max(Delays)
    /\ scale_start' = start
    /\ scale_type' = type
    /\ scale' = ScaleOf(type)
    /\ scale_i' = 1
    /\ scale_mark' = Len(sent)
    /\ pc' = "scale_start"
    /\ UNCHANGED <<current_instrument, current_note, start_time, port_open,
                   sent, now, ret>>
    /\ UNCHANGED audio_vars

\* play_scale, lines 111-112: start_note of the current interval.
ScaleStartNote(lag) ==
    /\ pc = "scale_start"
    /\ LET note == scale_start + scale[scale_i]
       IN /\ Store(StartNoteAt(Self, note, now, lag))
          /\ now' = ClockAfterStart(Self, note, now, lag)
    /\ pc' = "scale_sleep"
    /\ UNCHANGED <<port_open, ret>>
    /\ UnchangedScale
    /\ UNCHANGED audio_vars

\* play_scale, lines 113-114: the sleep, then stop_note.
ScaleStopNote ==
    /\ pc = "scale_sleep"
    /\ now' = now + SleepTicks
    /\ Store(StopNoteAt(Self, now + SleepTicks))
    /\ IF scale_i < Len(scale)
       THEN /\ scale_i' = scale_i + 1
            /\ pc' = "scale_start"
       ELSE /\ scale_i' = scale_i
            /\ pc' = "ready"
    /\ UNCHANGED <<port_open, ret, scale_start, scale_type, scale, scale_mark>>
    /\ UNCHANGED audio_vars

\* close
Close ==
    /\ pc = "ready"
    /\ Store(StopNoteAt(Self, now))
    /\ port_open' = FALSE
    /\ pc' = "closed"
    /\ UNCHANGED <<now, ret>>
    /\ UnchangedScale
    /\ UNCHANGED audio_vars

\* main, lines 262-300: an exception other than ValueError (KeyboardInterrupt,
\* EOFError at input()) is caught nowhere: it ends main, and the process ends
\* without a call of close.
Uncaught ==
    /\ pc \in {"ready", "scale_sleep"}
    /\ port_open' = FALSE
    /\ pc' = "exited"
    /\ UNCHANGED <<current_instrument, current_note, start_time, sent, now, ret>>
    /\ UnchangedScale
    /\ UNCHANGED audio_vars

(***************************************************************************)
(* main.py                                                                 *)
(* A volume v stands for v / 1000, a frequency f for f / 10 Hz, a           *)
(* coordinate c for c / 10. A term [vol, freq] of a block that starts at   *)
(* sample t stands for the array vol * sin(2 pi freq (n + t) / SAMPLE_RATE)*)
(* over n = 0 .. frames - 1 of line 34.                                    *)
(***************************************************************************)
\* The detection loop reads at most MaxFrames frames.
MaxFrames == 2
\* audio_callback is invoked only while fewer than MaxBlocks blocks were written.
MaxBlocks == 2

\* The values the detector and the audio device pass.
Xs == {0, 5}
Ys == {6}
ExtendedCounts == {0, 1, 2, 3}
FrameCounts == {1, 2}

DefaultVolume == 300

VolMin == 0
VolMax == 700
FreqMin == 2000
FreqMax == 8000

\* main, lines 144-145
VolumeOf(x) == VolMin + ((VolMax - VolMin) * (10 - x)) \div 10

\* main, lines 149-150, with freq_max in the place of the span
\* freq_max - freq_min.
BaseFreqOfNoSpan(y) == FreqMin + (FreqMax * (10 - y)) \div 10

\* main, lines 149-150
BaseFreqOf(y) == FreqMin + ((FreqMax - FreqMin) * (10 - y)) \div 10

\* main, lines 153-178, with the test of line 162 left out: a fist falls to
\* the else of line 176.
ChordOfNoFist(ext, f) ==
    IF ext = 1 THEN <<f>>
    ELSE IF ext = 2 THEN <<f, (f * 15) \div 10>>
    ELSE <<f>>

\* main, lines 153-178
ChordOf(ext, f) ==
    IF ext = 1 THEN <<f>>
    ELSE IF ext = 2 THEN <<f, (f * 15) \div 10>>
    ELSE IF ext = 0 THEN <<f, (f * 126) \div 100, (f * 150) \div 100,
                           (f * 200) \div 100>>
    ELSE <<f>>

\* audio_callback, line 30, with the buffer of the block before in the place
\* of a zeroed one.
StaleMix == cb_mix

\* audio_callback, line 30: mix starts as zeros, the sum of no term.
ZeroMix == <<>>

\* audio_callback, line 39, with = in the place of +=.
NextT0Assigned(t, frames) == frames

\* audio_callback, line 39
NextT0(t, frames) == t + frames

InitAudio ==
    /\ volume = DefaultVolume
    /\ active_frequencies = <<>>
    /\ t0 = 0
    /\ main_pc = "detect"
    /\ base_freq = 0
    /\ extended = 0
    /\ stream_active = TRUE
    /\ cb_pc = "idle"
    /\ cb_frames = 0
    /\ cb_t = 0
    /\ cb_list = <<>>
    /\ cb_paired = volume
    /\ cb_i = 0
    /\ cb_mix = <<>>
    /\ out = <<>>
    /\ list_volume = volume
    /\ frames_read = 0

UnchangedCallback ==
    UNCHANGED <<t0, cb_pc, cb_frames, cb_t, cb_list, cb_paired, cb_i, cb_mix, out>>

UnchangedMain ==
    UNCHANGED <<volume, active_frequencies, main_pc, base_freq, extended,
                stream_active, list_volume, frames_read>>

\* main, lines 124-150: a frame with a hand; volume is assigned.
FrameHand(x, y, ext) ==
    /\ main_pc = "detect"
    /\ frames_read < MaxFrames
    /\ frames_read' = frames_read + 1
    /\ extended' = ext
    /\ volume' = VolumeOf(x)
    /\ base_freq' = BaseFreqOf(y)
    /\ main_pc' = "write_freq"
    /\ UNCHANGED <<active_frequencies, stream_active, list_volume>>
    /\ UnchangedCallback
    /\ UNCHANGED midi_vars

\* main, lines 153-178: active_frequencies is assigned.
WriteFreqs ==
    /\ main_pc = "write_freq"
    /\ active_frequencies' = ChordOf(extended, base_freq)
    /\ list_volume' = volume
    /\ main_pc' = "detect"
    /\ UNCHANGED <<volume, base_freq, extended, stream_active, frames_read>>
    /\ UnchangedCallback
    /\ UNCHANGED midi_vars

\* main, lines 180-182: a frame with no hand.
FrameNoHand ==
    /\ main_pc = "detect"
    /\ frames_read < MaxFrames
    /\ frames_read' = frames_read + 1
    /\ active_frequencies' = <<>>
    /\ list_volume' = volume
    /\ UNCHANGED <<volume, main_pc, base_freq, extended, stream_active>>
    /\ UnchangedCallback
    /\ UNCHANGED midi_vars

\* main, lines 100-102, 186-190: the loop is left.
MainExit ==
    /\ main_pc \in {"detect", "write_freq"}
    /\ main_pc' = "cleanup"
    /\ UNCHANGED <<volume, active_frequencies, base_freq, extended,
                   stream_active, list_volume, frames_read>>
    /\ UnchangedCallback
    /\ UNCHANGED midi_vars

\* main, lines 195-196: stream.stop() returns once no callback is running.
StreamStop ==
    /\ main_pc = "cleanup"
    /\ cb_pc = "idle"
    /\ stream_active' = FALSE
    /\ main_pc' = "done"
    /\ UNCHANGED <<volume, active_frequencies, base_freq, extended, list_volume,
                   frames_read>>
    /\ UnchangedCallback
    /\ UNCHANGED midi_vars

\* audio_callback, lines 27-33: t is computed from t0, mix is zeroed, and the
\* for loop takes the list active_frequencies names at that moment.
CbBegin(frames) ==
    /\ stream_active
    /\ cb_pc = "idle"
    /\ Len(out) < MaxBlocks
    /\ cb_frames' = frames
    /\ cb_t' = t0
    /\ cb_mix' = ZeroMix
    /\ cb_list' = active_frequencies
    /\ cb_paired' = list_volume
    /\ cb_i' = 1
    /\ cb_pc' = "loop"
    /\ UNCHANGED <<t0, out>>
    /\ UnchangedMain
    /\ UNCHANGED midi_vars

\* audio_callback, line 34: one pass of the loop; volume is read now.
CbTerm ==
    /\ cb_pc = "loop"
    /\ cb_i <= Len(cb_list)
    /\ cb_mix' = Append(cb_mix, [vol |-> volume, freq |-> cb_list[cb_i]])
    /\ cb_i' = cb_i + 1
    /\ UNCHANGED <<t0, cb_pc, cb_frames, cb_t, cb_list, cb_paired, out>>
    /\ UnchangedMain
    /\ UNCHANGED midi_vars

\* audio_callback, lines 36-39: the block is written, t0 advances.
CbEnd ==
    /\ cb_pc = "loop"
    /\ cb_i > Len(cb_list)
    /\ out' = Append(out, [t |-> cb_t, frames |-> cb_frames,
                           freqs |-> cb_list, paired |-> cb_paired,
                           terms |-> cb_mix])
    /\ t0' = NextT0(t0, cb_frames)
    /\ cb_pc' = "idle"
    /\ UNCHANGED <<cb_frames, cb_t, cb_list, cb_paired, cb_i, cb_mix>>
    /\ UnchangedMain
    /\ UNCHANGED midi_vars

Init == InitMidi /\ InitAudio

Next ==
    \/ \E d \in Delays : Tick(d)
    \/ \E num \in InstrumentChoices : SelectInstrument(num)
    \/ SelectInstrumentValueError
    \/ \E note \in Pitches, lag \in Lags : StartNote(note, lag)
    \/ StopNote
    \/ \E start \in ScaleStarts, type \in ScaleTypes : PlayScale(start, type)
    \/ \E lag \in Lags : ScaleStartNote(lag)
    \/ ScaleStopNote
    \/ Close
    \/ Uncaught

Spec == Init /\ [][Next]_vars

\* The theremin: the detection loop and the audio callback, interleaved.
NextAudio ==
    \/ \E x \in Xs, y \in Ys, ext \in ExtendedCounts : FrameHand(x, y, ext)
    \/ WriteFreqs
    \/ FrameNoHand
    \/ MainExit
    \/ StreamStop
    \/ \E frames \in FrameCounts : CbBegin(frames)
    \/ CbTerm
    \/ CbEnd

SpecAudio == Init /\ [][NextAudio]_vars

\* The detection loop alone, over the whole span of the detector's values:
\* the fingertip at the edges and inside the frame, every finger count.
AllXs == {0, 3, 10}
AllYs == {0, 4, 6, 10}
AllCounts == 0 .. 5

NextDetect ==
    \/ \E x \in AllXs, y \in AllYs, ext \in AllCounts : FrameHand(x, y, ext)
    \/ WriteFreqs
    \/ FrameNoHand
    \/ MainExit
    \/ StreamStop

SpecDetect == Init /\ [][NextDetect]_vars

\* The audio callback alone, under a frequency list and a volume that no
\* frame changes: those a frame can leave, or the defaults.
InitPhase ==
    /\ InitMidi
    /\ \E x \in Xs \cup {None}, y \in Ys, ext \in ExtendedCounts \cup {None} :
          /\ x = None => ext = None
          /\ volume = IF x = None THEN DefaultVolume ELSE VolumeOf(x)
          /\ active_frequencies =
                IF ext = None THEN <<>> ELSE ChordOf(ext, BaseFreqOf(y))
    /\ t0 = 0
    /\ main_pc = "detect"
    /\ base_freq = 0
    /\ extended = 0
    /\ stream_active = TRUE
    /\ cb_pc = "idle"
    /\ cb_frames = 0
    /\ cb_t = 0
    /\ cb_list = <<>>
    /\ cb_paired = volume
    /\ cb_i = 0
    /\ cb_mix = <<>>
    /\ out = <<>>
    /\ list_volume = volume
    /\ frames_read = 0

NextPhase ==
    \/ \E frames \in FrameCounts : CbBegin(frames)
    \/ CbTerm
    \/ CbEnd

SpecPhase == InitPhase /\ [][NextPhase]_vars

(***************************************************************************)
(* Properties of the instrument.                                           *)
(***************************************************************************)
IsNoteMsg(m) == m.type \in {"note_on", "note_off"}

\* The note messages of a stream, in order.
RECURSIVE NoteMsgs(_)
NoteMsgs(seq) ==
    IF seq = <<>> THEN <<>>
    ELSE IF IsNoteMsg(Head(seq)) THEN <<Head(seq)>> \o NoteMsgs(Tail(seq))
    ELSE NoteMsgs(Tail(seq))

\* No note is left sounding by the stream seq.
IdleAfter(seq) ==
    LET notes == NoteMsgs(seq)
    IN notes = <<>> \/ notes[Len(notes)].type = "note_off"

\* The pitch play_scale asks for at its current step.
ScalePitch == scale_start + scale[scale_i]

\* The note messages alternate: note_on, note_off of the same pitch, note_on, ...
Alternates(notes) ==
    \A i \in 1..Len(notes) :
        IF i % 2 = 1
        THEN notes[i].type = "note_on"
        ELSE notes[i].type = "note_off" /\ notes[i].note = notes[i - 1].note

C1_StreamMonophonic ==
    /\ Alternates(NoteMsgs(sent))
    /\ current_note = IF IdleAfter(sent) THEN None
                      ELSE NoteMsgs(sent)[Len(NoteMsgs(sent))].note

\* Pitch B is asked for while another pitch sounds, B in range.
RetriggerCase(B) ==
    /\ current_note # None
    /\ B # current_note
    /\ B \in NOTE_RANGES[current_instrument]

RetriggerEffect(B) ==
    /\ Len(sent') = Len(sent) + 2
    /\ sent'[Len(sent) + 1].type = "note_off"
    /\ sent'[Len(sent) + 1].note = current_note
    /\ sent'[Len(sent) + 2].type = "note_on"
    /\ sent'[Len(sent) + 2].note = B
    /\ SubSeq(sent', 1, Len(sent)) = sent
    /\ current_note' = B

C1_Retrigger ==
    /\ pc = "ready" =>
          \A B \in Pitches, lag \in Lags :
              (RetriggerCase(B) /\ StartNote(B, lag)) => RetriggerEffect(B)
    /\ pc = "scale_start" =>
          \A lag \in Lags :
              (RetriggerCase(ScalePitch) /\ ScaleStartNote(lag))
              => RetriggerEffect(ScalePitch)

\* C1: the stream sent to the port never holds two note_on without a note_off
\* of the first between them, and it agrees with current_note; a start_note(B)
\* while another pitch A sounds, B in range, sends exactly note_off(A) then
\* note_on(B) and leaves current_note = B.
C1_Monophony == []C1_StreamMonophonic /\ [][C1_Retrigger]_vars

\* A state reached by a retrigger: on(A), off(A), on(B) end the stream.
C1_Witness ==
    /\ Len(sent) >= 3
    /\ sent[Len(sent) - 2].type = "note_on"
    /\ sent[Len(sent) - 1].type = "note_off"
    /\ sent[Len(sent) - 1].note = sent[Len(sent) - 2].note
    /\ sent[Len(sent)].type = "note_on"
    /\ sent[Len(sent)].note # sent[Len(sent) - 1].note
    /\ current_note = sent[Len(sent)].note
    /\ start_time = now

\* C6: a start_note(p) with p outside the range of the current instrument sends
\* nothing and leaves current_note and start_time as they were, a note
\* sounding or not.
C6_RangeValidation ==
    [][/\ pc = "ready" =>
          \A p \in Pitches, lag \in Lags :
              (p \notin NOTE_RANGES[current_instrument] /\ StartNote(p, lag))
              => UNCHANGED <<sent, current_note, start_time>>
       /\ pc = "scale_start" =>
          \A lag \in Lags :
              (ScalePitch \notin NOTE_RANGES[current_instrument]
               /\ ScaleStartNote(lag))
              => UNCHANGED <<sent, current_note, start_time>>]_vars

\* play_scale has just asked for a pitch out of range while another sounds.
C6_Witness ==
    /\ pc = "scale_sleep"
    /\ ScalePitch \notin NOTE_RANGES[current_instrument]
    /\ current_note # None
    /\ start_time # None
    /\ Len(sent) = scale_mark

\* The note_off a step appends while a note sounds, if it appends one.
StopSent == sent'[Len(sent) + 1]
StopHappens ==
    /\ current_note # None
    /\ Len(sent') > Len(sent)
    /\ StopSent.type = "note_off"
\* The time of the stop: play_scale stops after its sleep.
StopTime == IF pc = "scale_sleep" THEN now' ELSE now

\* C7 as stated: the note_off of a note held d seconds carries
\* min(127, round(64 + 30 d)).
C7_AsStated ==
    [][StopHappens => StopSent.velocity = VelocityRounded(StopTime - start_time)]_vars

\* v is min(127, floor(64 + 30 d)), d = ticks / TicksPerSec.
IsFloorVelocity(v, ticks) ==
    LET x8 == VelocityBase * TicksPerSec + VelocitySlope * ticks
    IN \/ v = VelocityMax /\ x8 >= VelocityMax * TicksPerSec
       \/ v < VelocityMax /\ v * TicksPerSec <= x8 /\ x8 < (v + 1) * TicksPerSec

\* C7, amended: the note_off of a note held d seconds carries
\* min(127, floor(64 + 30 d)): the fraction is cut, not rounded.
C7_FloorVelocity ==
    [][StopHappens =>
          /\ IsFloorVelocity(StopSent.velocity, StopTime - start_time)
          /\ (StopTime = start_time => StopSent.velocity = 64)
          /\ (StopTime - start_time = 3 * TicksPerSec => StopSent.velocity = 127)]_vars

\* A note held 1/8 s was stopped: 64 + 3.75 gives 67, where rounding gives 68.
C7_Witness ==
    \E i \in 1..Len(sent) :
        /\ sent[i].type = "note_off"
        /\ sent[i].velocity = 67
        /\ VelocityRounded(1) = 68

\* C8: start_time is set exactly when current_note is.
C8_StartTimeIffNote == (start_time # None) <=> (current_note # None)

\* A note was started, stopped, and another one sounds.
C8_Witness ==
    /\ current_note # None
    /\ start_time # None
    /\ Len(sent) >= 3
    /\ sent[Len(sent) - 1].type = "note_off"

\* scale_type is "major" in some mix of cases.
IsMajor(type) ==
    /\ Len(type) = 5
    /\ type[1] \in {"m", "M"}
    /\ type[2] \in {"a", "A"}
    /\ type[3] \in {"j", "J"}
    /\ type[4] \in {"o", "O"}
    /\ type[5] \in {"r", "R"}

ExpectedOffsets(type) ==
    IF IsMajor(type) THEN <<0, 2, 4, 5, 7, 9, 11, 12>>
    ELSE <<0, 2, 3, 5, 7, 8, 10, 12>>

\* The first n of: note_on(s + k), note_off(s + k), for each offset k in order
\* (type and pitch of each message).
ExpectedScale(s, type, n) ==
    [j \in 1..n |->
        <<IF j % 2 = 1 THEN "note_on" ELSE "note_off",
          s + ExpectedOffsets(type)[(j + 1) \div 2]>>]

\* What play_scale has sent since it was entered (type and pitch).
ScaleSent(stream) ==
    [j \in 1..(Len(stream) - scale_mark) |->
        <<stream[scale_mark + j].type, stream[scale_mark + j].note>>]

\* play_scale was entered idle and every pitch of the scale is in range.
ScaleCase ==
    /\ IdleAfter(SubSeq(sent, 1, scale_mark))
    /\ \A k \in 1..8 :
          scale_start + ExpectedOffsets(scale_type)[k]
              \in NOTE_RANGES[current_instrument]

C9_DuringScale ==
    ScaleCase =>
       /\ pc = "scale_start" =>
             ScaleSent(sent) = ExpectedScale(scale_start, scale_type, 2 * (scale_i - 1))
       /\ pc = "scale_sleep" =>
             ScaleSent(sent) = ExpectedScale(scale_start, scale_type, 2 * scale_i - 1)

C9_ScaleEnds ==
    (ScaleCase /\ pc # "ready" /\ pc' = "ready")
    => ScaleSent(sent') = ExpectedScale(scale_start, scale_type, 16)

\* C9: play_scale(s, type) entered idle with the eight pitches in range sends
\* exactly 16 messages, note_on(s + k) then note_off(s + k) for k in
\* 0,2,4,5,7,9,11,12 when type is "major" in any case, and for k in
\* 0,2,3,5,7,8,10,12 otherwise.
C9_ScaleSequence == []C9_DuringScale /\ [][C9_ScaleEnds]_vars

\* play_scale(60, "MaJor") has returned: 60 ... 72 were played.
C9_Witness ==
    /\ pc = "ready"
    /\ scale_start = 60
    /\ scale_type = <<"M", "a", "J", "o", "r">>
    /\ Len(sent) = scale_mark + 16
    /\ ScaleSent(sent)[1] = <<"note_on", 60>>
    /\ ScaleSent(sent)[6] = <<"note_off", 64>>
    /\ ScaleSent(sent)[16] = <<"note_off", 72>>

\* C10 as stated: the port is never released while a note_on is unmatched, and
\* the instrument is idle once the port is released.
C10_AsStated ==
    ~port_open => /\ IdleAfter(sent)
                  /\ current_note = None
                  /\ start_time = None

(***************************************************************************)
(* Properties of the theremin.                                             *)
(***************************************************************************)
\* C2 as stated: no block is rendered from the frequency list one frame
\* assigned and a volume another frame assigned: every volume a block uses is
\* the one in force when its list was assigned.
C2_AsStated ==
    \A b \in 1..Len(out) :
        \A k \in 1..Len(out[b].terms) :
            out[b].terms[k].vol = out[b].paired

\* C3 as stated: every term of a block is computed from the same frequency
\* list and the same volume, whatever is written while the block is rendered.
C3_AsStated ==
    \A b \in 1..Len(out) :
        /\ Len(out[b].terms) = Len(out[b].freqs)
        /\ \A k \in 1..Len(out[b].terms) :
              /\ out[b].terms[k].freq = out[b].freqs[k]
              /\ out[b].terms[k].vol = out[b].terms[1].vol

RECURSIVE SumFrames(_)
SumFrames(blocks) ==
    IF blocks = <<>> THEN 0
    ELSE blocks[1].frames + SumFrames(Tail(blocks))

C4_Sum ==
    /\ t0 = SumFrames(out)
    /\ \A k \in 1..Len(out) : out[k].t = SumFrames(SubSeq(out, 1, k - 1))

C4_Step ==
    \/ t0' = t0
    \/ /\ cb_pc = "loop"
       /\ cb_pc' = "idle"
       /\ \E frames \in FrameCounts : cb_frames = frames /\ t0' = t0 + frames
       /\ stream_active
       /\ UNCHANGED <<volume, active_frequencies, main_pc>>

\* C4: t0 is 0 at first, every audio_callback invocation adds its frames to
\* it and nothing else changes it, so that it is the sum of the frame counts
\* of the blocks written, and each block started at the sum of those before.
C4_PhaseAccumulator == []C4_Sum /\ [][C4_Step]_vars

\* Two blocks of different sizes were written while frames changed the
\* frequencies and the volume.
C4_Witness ==
    /\ Len(out) = 2
    /\ out[1].frames # out[2].frames
    /\ out[1].freqs # out[2].freqs
    /\ volume # DefaultVolume
    /\ t0 = out[1].frames + out[2].frames
    /\ t0 = 3

\* What one audio_callback invocation writes when it starts at sample t with
\* the list freqs and the volume vol, nothing being written meanwhile.
BlockOf(t, frames, freqs, vol) ==
    [t |-> t, frames |-> frames, freqs |-> freqs, paired |-> vol,
     terms |-> [k \in 1..Len(freqs) |-> [vol |-> vol, freq |-> freqs[k]]]]

\* The samples of a block: sample n is the sum of its terms at the global
\* sample index t + n.
Samples(block) ==
    [n \in 1..block.frames |->
        [k \in 1..Len(block.terms) |->
            <<block.terms[k].vol, block.terms[k].freq, block.t + n - 1>>]]

RECURSIVE Concat(_)
Concat(blocks) ==
    IF blocks = <<>> THEN <<>>
    ELSE Samples(blocks[1]) \o Concat(Tail(blocks))

\* C5: with the frequency list and the volume constant, the samples of any
\* run of consecutive blocks, concatenated, are those of one invocation that
\* starts at the same t0 and asks for as many samples as the run holds, and
\* both end at the same t0.
C5_PhaseContinuity ==
    \A i \in 1..Len(out) :
        \A j \in i..Len(out) :
            LET run == SubSeq(out, i, j)
                one == BlockOf(out[i].t, SumFrames(run), active_frequencies, volume)
            IN /\ Concat(run) = Samples(one)
               /\ out[j].t + out[j].frames = one.t + one.frames
               /\ (j = Len(out) /\ cb_pc = "idle") => t0 = one.t + one.frames

\* Two blocks of two samples of a chord were written.
C5_Witness ==
    /\ Len(out) = 2
    /\ out[1].frames = 2
    /\ out[2].frames = 2
    /\ Len(active_frequencies) = 4
    /\ Len(Concat(out)) = 4
    /\ Concat(out)[3][2] = <<volume, active_frequencies[2], 2>>
    /\ t0 = 4

(***************************************************************************)
(* Properties of the detection loop.                                       *)
(***************************************************************************)
\* The step of lines 153-178: a frame with a hand assigns the list.
ListWritten == main_pc = "write_freq" /\ main_pc' = "detect"

\* The step of lines 180-182: a frame with no hand.
NoHandSeen == main_pc = "detect" /\ frames_read' = frames_read + 1
                 /\ main_pc' = "detect"

\* The list the specification gives for a finger count and a base frequency
\* f: a note, a fifth, a major chord with the octave.
FrequencyList(count, f) ==
    CASE count = 0 -> <<f, (126 * f) \div 100, (3 * f) \div 2, 2 * f>>
      [] count = 1 -> <<f>>
      [] count = 2 -> <<f, (3 * f) \div 2>>
      [] OTHER -> <<f>>

\* C11: the list the detection loop writes is a function of the finger
\* count and the base frequency f alone: [f, 1.26 f, 1.5 f, 2 f] for a fist,
\* [f] for one finger, [f, 1.5 f] for two, [f] for 3, 4 and 5, and the empty
\* list when no hand is seen; with f = 440 Hz a fist gives 440, 554.4, 660
\* and 880 Hz.
C11_ChordMapping ==
    [][/\ ListWritten =>
            /\ active_frequencies' = FrequencyList(extended, base_freq)
            /\ extended \in {3, 4, 5} => active_frequencies' = <<base_freq>>
            /\ (extended = 0 /\ base_freq = 4400) =>
                  active_frequencies' = <<4400, 5544, 6600, 8800>>
            /\ (extended = 2 /\ base_freq = 4400) =>
                  active_frequencies' = <<4400, 6600>>
       /\ NoHandSeen => active_frequencies' = <<>>]_vars

\* The second frame showed a fist at 440 Hz, and its list was written.
C11_Witness ==
    /\ main_pc = "detect"
    /\ frames_read = 2
    /\ extended = 0
    /\ base_freq = 4400
    /\ active_frequencies = <<4400, 5544, 6600, 8800>>

\* C17: for a fingertip with x and y in [0, 1], in every reachable state the
\* volume lies in [0.0, 0.7] and the frequency list has at most 4 entries,
\* each in [200, 1600] Hz; every base frequency a frame computes lies in
\* [200, 800] Hz.
C17_ControlRanges ==
    /\ [](/\ volume \in 0 .. 700
          /\ Len(active_frequencies) <= 4
          /\ \A i \in 1 .. Len(active_frequencies) :
                active_frequencies[i] \in 2000 .. 16000)
    /\ [][main_pc' = "write_freq" => base_freq' \in 2000 .. 8000]_vars

\* The fingertip sat in the top left corner over a fist: the volume and every
\* frequency of the chord are at their upper ends.
C17_Witness ==
    /\ main_pc = "detect"
    /\ frames_read = 2
    /\ volume = 700
    /\ base_freq = 8000
    /\ active_frequencies = <<8000, 10080, 12000, 16000>>

(***************************************************************************)
(* Properties of the audio callback on an empty list.                      *)
(***************************************************************************)
\* A sample is zero when it is the sum of no term.
IsZero(sample) == sample = <<>>

\* A block of frames samples, every one zero.
IsSilent(block, frames) ==
    /\ Len(Samples(block)) = frames
    /\ \A n \in 1..frames : IsZero(Samples(block)[n])

\* C12: when audio_callback runs on an empty frequency list, the block it
\* writes has exactly frames samples, every one 0 whatever the volume is, and
\* t0 advances by frames.
C12_SilenceOnEmpty ==
    /\ [](\A i \in 1..Len(out) :
             out[i].freqs = <<>> => IsSilent(out[i], out[i].frames))
    /\ [][(cb_pc = "loop" /\ cb_pc' = "idle" /\ cb_list = <<>>) =>
             /\ Len(out') = Len(out) + 1
             /\ out'[Len(out')].frames = cb_frames
             /\ IsSilent(out'[Len(out')], cb_frames)
             /\ t0' = t0 + cb_frames]_vars

\* A block of a sounding note was written, then the hand left the frame and
\* a block of two samples was written at full volume.
C12_Witness ==
    /\ Len(out) = 2
    /\ out[1].terms # <<>>
    /\ out[2].freqs = <<>>
    /\ out[2].frames = 2
    /\ volume = 700
    /\ cb_pc = "idle"
    /\ t0 = out[2].t + 2

(***************************************************************************)
(* Properties of the instrument, continued.                                *)
(***************************************************************************)
\* C13: select_instrument with a number outside INSTRUMENTS, or with input
\* that is no number, returns False, sends nothing and keeps
\* current_instrument; with n in INSTRUMENTS it sets current_instrument to
\* n, returns True and sends exactly one message, program_change with
\* program n - 1, which lies in 0..127.
C13_SelectInstrument ==
    [][pc = "ready" =>
          /\ \A n \in InstrumentChoices :
                SelectInstrument(n) =>
                   IF n \in INSTRUMENTS
                   THEN /\ current_instrument' = n
                        /\ ret' = 1
                        /\ sent' = sent \o
                              <<[type |-> "program_change", program |-> n - 1]>>
                        /\ n - 1 \in 0..127
                   ELSE /\ ret' = 0
                        /\ UNCHANGED <<sent, current_instrument>>
          /\ SelectInstrumentValueError =>
                /\ ret' = 0
                /\ UNCHANGED <<sent, current_instrument>>
          /\ \A n \in INSTRUMENTS : ProgramOf(n) \in 0..127]_vars

\* The flute was selected, and a selection after it was rejected: the one
\* message sent is the flute's program change, the flute stays selected.
C13_Witness ==
    /\ ret = 0
    /\ current_instrument = 74
    /\ sent = <<[type |-> "program_change", program |-> 73]>>

\* play_scale has asked for the pitch that sounded at its entry, as its first
\* step, and sleeps: nothing was sent since the entry.
HeldThroughStart ==
    /\ pc = "scale_sleep"
    /\ scale_i = 1
    /\ Len(sent) = scale_mark
    /\ current_note = ScalePitch

\* C14: start_note(p) while p sounds sends nothing and leaves current_note
\* and start_time as they were; the note_off that ends the note carries the
\* velocity of the time held since the first start_note(p).
C14_HoldNoRetrigger ==
    [][/\ pc = "ready" =>
             \A p \in Pitches, lag \in Lags :
                 (current_note = p /\ StartNote(p, lag))
                 => UNCHANGED <<sent, current_note, start_time, now>>
       /\ pc = "scale_start" =>
             \A lag \in Lags :
                 (current_note = ScalePitch /\ ScaleStartNote(lag))
                 => UNCHANGED <<sent, current_note, start_time, now>>
       /\ (HeldThroughStart /\ ScaleStopNote) =>
             /\ sent'[Len(sent')].type = "note_off"
             /\ sent'[Len(sent')].note = ScalePitch
             /\ IsFloorVelocity(sent'[Len(sent')].velocity, now' - start_time)]_vars

\* 60 was started, held 1/8 s, and play_scale(60, ...) asked for it again:
\* no message but the first note_on was sent, start_time is the first start.
C14_Witness ==
    /\ HeldThroughStart
    /\ sent = <<[type |-> "note_on", note |-> 60, velocity |-> 64]>>
    /\ start_time = 0
    /\ now = 1

\* What start_note(B) does at time now when it replaces the pitch that sounds:
\* the note_off is the one stop_note would send now, its velocity that of the
\* time held; the note_on carries 64; the start time of B is read after.
RetriggerVelocity(B) ==
    /\ Len(sent') = Len(sent) + 2
    /\ sent'[Len(sent) + 1] = StopNoteAt(Self, now).sent[Len(sent) + 1]
    /\ sent'[Len(sent) + 1].type = "note_off"
    /\ IsFloorVelocity(sent'[Len(sent) + 1].velocity, now - start_time)
    /\ sent'[Len(sent) + 2] = [type |-> "note_on", note |-> B, velocity |-> 64]
    /\ start_time' >= now
    /\ start_time' = now'

\* C15: when pitch A, started at t, is replaced by start_note(B) at t', B in
\* range and other than A, the note_off of A carries the velocity stop_note
\* computes from the hold t' - t, the note_on of B carries 64, and the
\* start_time of B is a time not before t'.
C15_RetriggerVelocity ==
    [][/\ pc = "ready" =>
             \A B \in Pitches, lag \in Lags :
                 (RetriggerCase(B) /\ StartNote(B, lag)) => RetriggerVelocity(B)
       /\ pc = "scale_start" =>
             \A lag \in Lags :
                 (RetriggerCase(ScalePitch) /\ ScaleStartNote(lag))
                 => RetriggerVelocity(ScalePitch)]_vars

\* 60 was held 1/8 s and replaced by 62, whose note_on was sent 1/8 s after
\* the call: the note_off carries 67, the note_on 64, and 62 starts at 2/8 s.
C15_Witness ==
    /\ sent = <<[type |-> "note_on", note |-> 60, velocity |-> 64],
                [type |-> "note_off", note |-> 60, velocity |-> 67],
                [type |-> "note_on", note |-> 62, velocity |-> 64]>>
    /\ current_note = 62
    /\ start_time = 2
    /\ now = 2

\* stop_note is called in this step: from the menu's callers, or by
\* play_scale after its sleep.
StopNoteCalled ==
    \/ pc = "ready" /\ StopNote
    \/ pc = "scale_sleep" /\ ScaleStopNote

\* C16: stop_note on an idle instrument sends nothing and leaves
\* current_note, start_time and current_instrument as they were; every
\* stop_note leaves the instrument idle, so a second stop_note right after
\* it sends nothing.
C16_StopIdleNoOp ==
    [][StopNoteCalled =>
          /\ current_note = None =>
                UNCHANGED <<sent, current_note, start_time, current_instrument>>
          /\ current_note' = None
          /\ start_time' = None
          /\ StopNoteAt(Self, now).current_note = None
          /\ StopNoteAt(StopNoteAt(Self, now), now) = StopNoteAt(Self, now)]_vars

\* play_scale(200, ...) on the idle piano has returned: each of its eight
\* stop_note calls found no note, and nothing was ever sent.
C16_Witness ==
    /\ pc = "ready"
    /\ scale_start = 200
    /\ scale_i = 8
    /\ sent = <<>>
    /\ current_note = None
    /\ start_time = None
    /\ current_instrument = 1

Places(seq, type) == {i \in 1..Len(seq) : seq[i].type = type}

\* The instrument that was selected when the last note_on of the stream was
\* sent: that of the last program_change before it, the piano when there is
\* none.
InstrumentAtStart ==
    LET on == Max(Places(sent, "note_on"))
        before == {j \in Places(sent, "program_change") : j < on}
    IN IF before = {} THEN 1 ELSE sent[Max(before)].program + 1

InScale == pc \in {"scale_start", "scale_sleep"}

\* The calls play_scale has still to make: a start_note and a stop_note for
\* each of 8 pitches.
ScaleStepsLeft ==
    CASE pc = "scale_start" -> 2 * (8 - scale_i) + 2
      [] pc = "scale_sleep" -> 2 * (8 - scale_i) + 1
      [] OTHER -> 0

\* Every note_on of the stream seq has a note_off of its pitch after it.
AllMatched(seq) ==
    \A i \in Places(seq, "note_on") :
        \E j \in Places(seq, "note_off") : j > i /\ seq[j].note = seq[i].note

\* No step of play_scale waits for anything but its sleep.
C19_NeverBlocked ==
    /\ pc = "scale_start" => ENABLED (\E lag \in Lags : ScaleStartNote(lag))
    /\ pc = "scale_sleep" => ENABLED ScaleStopNote
    /\ InScale => scale_i \in 1..8 /\ Len(scale) = 8

C19_ScaleStep ==
    /\ (pc = "ready" /\ pc' = "scale_start") => ScaleStepsLeft' = 16
    /\ (InScale /\ pc' # "exited") =>
          /\ ScaleStepsLeft' = ScaleStepsLeft - 1
          /\ pc' = "ready" <=> ScaleStepsLeft = 1
    /\ (pc = "scale_start" /\ ScalePitch \notin NOTE_RANGES[current_instrument])
          => UNCHANGED <<sent, current_note, start_time>>
    /\ (InScale /\ pc' = "ready") =>
          /\ scale_i = 8
          /\ current_note' = None
          /\ start_time' = None
          /\ IdleAfter(sent')
          /\ AllMatched(sent')

\* C19: play_scale, unless an exception ends the program in one of its
\* sleeps, returns after exactly 8 start_note and 8 stop_note calls, none of
\* which can block, and leaves current_note = None, start_time = None and
\* every note_on sent matched by a later note_off, whatever the start pitch
\* and the scale type: a pitch out of range sends nothing, and a note that
\* sounded at entry is stopped.
C19_ScaleTerminates == []C19_NeverBlocked /\ [][C19_ScaleStep]_vars

\* play_scale(200, ...) was entered while 60 sounded on the piano and has
\* returned: no pitch of the scale was in range, the note of the entry was
\* stopped by the first stop_note, 4/8 s after the entry.
C19_Witness ==
    /\ pc = "ready"
    /\ scale_start = 200
    /\ scale_i = 8
    /\ scale_mark = 1
    /\ Len(sent) = 2
    /\ sent[1] = [type |-> "note_on", note |-> 60, velocity |-> 64]
    /\ sent[2].type = "note_off"
    /\ sent[2].note = 60
    /\ current_note = None
    /\ start_time = None
    /\ now >= 8 * SleepTicks

=============================================================================
